---- MODULE Spec2Model ----
(***************************************************************************)
(* Model of the record lifecycle (server/controllers/ipController.js) and  *)
(* of the cipher-key ledger (cipherKeyController.js) of DimTony/card.      *)
(*                                                                         *)
(* Every request handler is an async function: it runs atomically between  *)
(* two awaits, and any other request may run at an await.  A handler is    *)
(* therefore one action per await, named <handler>_<awaited call>, and its *)
(* position is pc[p] for the request slot p that runs it.                  *)
(***************************************************************************)
EXTENDS Integers, Sequences, FiniteSets, TLC

(* ------------------------------ bounds -------------------------------- *)
NumProcs == 2       \* requests in flight at once
MaxCalls == 3       \* requests issued in one behaviour
MaxFiles == 2       \* card images of one request: none or this many (multer allows 5)
MaxReceipts == 1    \* receipt images of one request
HourTicks == 4      \* clock ticks in an hour
MaxAge == 1         \* days by which a caller backdates a cipher key
MaxDays == 1        \* days a caller passes to deleteCipherKeys

Procs == 1..NumProcs
Ips == {"ip1", "ip2"}
NoIp == ""                         \* a missing (falsy) ip
Null == "null"                     \* undefined / null of a string field
NoContact == 0                     \* no contact details stored
NoDate == -1                       \* undefined of a date field
GeoInfos == {"geo", Null}          \* what fetchIpInfo resolves to
Statuses == {"approved", "rejected", "pending"}   \* status values a caller may send
Notes == {Null, "note"}
ImageTypes == {"card", "receipt"}
ActionTypes == {"encrypt", "decrypt", "other"}    \* actionType values a caller may send
DayTicks == 24 * HourTicks
Epoch == (MaxAge + 1) * DayTicks   \* the clock at start
NoTxn == [state |-> "none"]
NoDoc == [_id |-> 0]
NoReq == [op |-> "none"]
NoPrevious == [status |-> 0]
NoResponse ==
    [req |-> NoReq, loaded |-> NoDoc, prior |-> NoDoc, stored |-> NoDoc,
     wrote |-> FALSE,
     notified |-> FALSE, status |-> 0, body |-> [success |-> FALSE]]

VARIABLES
    db,        \* the IP collection: a set of documents
    mail,      \* notifications handed to emailService
    now,       \* Date.now(): the clock advances as requests arrive
    calls,     \* requests issued so far
    nextId,    \* next ObjectId (documents and image subdocuments)
    pc,        \* pc[p]: where request slot p stands
    req,       \* req[p]: the request slot p serves
    ipRecord,  \* ipRecord[p]: the handler's mongoose document
    orig,      \* orig[p]: that document as loaded (mongoose's change tracking)
    sent,      \* the last response sent, with the request it answers
    ledger,    \* the CipherKey collection: the committed documents
    txn        \* txn[p]: the session and transaction of slot p's handler

vars == <<db, mail, now, calls, nextId, pc, req, ipRecord, orig, sent, ledger, txn>>
registry == <<db, mail, ipRecord, orig>>

(* ------------------------- the IP model (store) ----------------------- *)

\* models/ip.js is not among the sources: the defaults of a new document.
IPSchemaDefaults ==
    [ encryptionStatus |-> "unapproved", accessCount |-> 1 ]

\* models/ip.js is not among the sources: the schema keeps mongoose's version
\* key (__v), which guards the array paths of a document.
VersionedPaths == {"encryptionCardImages", "receiptImages"}

\* A collection without the unique index on ip.
UniqueIpIndex_None(coll, doc) == TRUE

\* models/ip.js is not among the sources: ip carries a unique index, so an
\* insert of a second document with the same ip is refused (E11000).
UniqueIpIndex(coll, doc) == \A d \in coll : d.ip # doc.ip

\* new IP({ip, isEncrypted: false, city: ipInfo?.city, ...})
NewIP(id, ip, ipInfo, t) ==
    [ _id |-> id,
      ip |-> ip,
      isEncrypted |-> FALSE,
      geo |-> ipInfo,
      encryptionStatus |-> IPSchemaDefaults.encryptionStatus,
      accessCount |-> IPSchemaDefaults.accessCount,
      lastAccessed |-> t,
      contact |-> NoContact,
      encryptionCardImages |-> <<>>,
      receiptImages |-> <<>>,
      encryptionRequestDate |-> NoDate,
      encryptionNotes |-> Null,
      __v |-> 0 ]

\* A find without its filter: the first document of the collection.
FindOne_AnyIp(ip) ==
    IF db = {} THEN NoDoc ELSE CHOOSE d \in db : \A e \in db : d._id <= e._id

\* IP.findOne({ ip }): the first matching document, or none.
FindOne(ip) ==
    LET hits == {d \in db : d.ip = ip}
    IN  IF hits = {} THEN NoDoc
        ELSE CHOOSE d \in hits : \A e \in hits : d._id <= e._id

\* The paths a document has modified since it was loaded.
ModifiedPaths(loaded, cur) == {f \in DOMAIN cur : cur[f] # loaded[f]}

\* A save that sets an array path carries the version the document was
\* loaded with in its filter, and increments it.
Versioned(loaded, cur) == ModifiedPaths(loaded, cur) \cap VersionedPaths # {}

\* doc.save() of a loaded document matches a stored one: otherwise mongoose
\* throws VersionError.
CanUpdate(coll, loaded, cur) ==
    \E d \in coll : /\ d._id = cur._id
                    /\ Versioned(loaded, cur) => d.__v = loaded.__v

\* doc.save() of a loaded document: updateOne({_id}, {$set: modified paths}).
UpdateOne(coll, loaded, cur) ==
    LET paths == ModifiedPaths(loaded, cur)
    IN  { IF d._id = cur._id
            THEN [f \in DOMAIN d |->
                    IF f \in paths THEN cur[f]
                    ELSE IF f = "__v" /\ Versioned(loaded, cur) THEN d[f] + 1
                    ELSE d[f]]
            ELSE d : d \in coll }

\* doc.save() of a new document: insertOne, refused by the unique index.
CanInsert(coll, doc) == UniqueIpIndex(coll, doc)
InsertOne(coll, doc) == coll \cup {doc}

(* ------------------------------ helpers ------------------------------- *)

\* process.env.NODE_ENV of the deployment.
NODE_ENV == "production"

\* error.message of the error a handler has caught: the internal detail.
ErrorMessage == "error.message"

\* process.env.NODE_ENV === "production" ? "Server error" : error.message
Disclosed(nodeEnv, message) ==
    IF nodeEnv = "production" THEN "Server error" ELSE message

\* The stored document of the identity a request names, for the record of
\* what a response left behind.
StoredOf(coll, r) ==
    LET hits == {d \in coll : d.ip = r.ip}
    IN  IF hits = {} THEN NoDoc ELSE CHOOSE d \in hits : \A e \in hits : d._id <= e._id

\* A request may enter slot p: the slot is free, and so that two behaviours
\* differing only in the numbering of the slots are explored once, it is the
\* lowest free slot.
Enter(p) ==
    /\ pc[p] = "idle"
    /\ \A q \in Procs : q < p => pc[q] # "idle"
    /\ calls < MaxCalls
    /\ calls' = calls + 1
    /\ now' = now + 1

\* The handler of request r starts and reaches its first await.
Start(p, r, label) ==
    /\ req' = [req EXCEPT ![p] = r]
    /\ pc' = [pc EXCEPT ![p] = label]
    /\ UNCHANGED <<ipRecord, orig, sent>>

\* res.status(code).json(body) and the handler returns: the slot is free.
Respond(p, r, coll, outbox, code, body) ==
    /\ sent' = [req |-> r, loaded |-> orig[p], prior |-> StoredOf(db, r),
                stored |-> StoredOf(coll, r),
                wrote |-> (coll # db), notified |-> (outbox # mail),
                status |-> code, body |-> body]
    /\ pc' = [pc EXCEPT ![p] = "idle"]
    /\ req' = [req EXCEPT ![p] = NoReq]
    /\ ipRecord' = [ipRecord EXCEPT ![p] = NoDoc]
    /\ orig' = [orig EXCEPT ![p] = NoDoc]

Goto(p, label) ==
    /\ pc' = [pc EXCEPT ![p] = label]
    /\ UNCHANGED <<req, sent>>

\* files.map(file => ({url, publicId, uploadDate: new Date()}))
Uploaded(first, n, t) ==
    [i \in 1..n |-> [_id |-> first + i - 1, uploadDate |-> t]]

(* ----------------------------- fetchIpInfo ---------------------------- *)

\* What axios.get("https://ipwho.is/" + ip) comes to: the data of the ip, data
\* with success false, or a rejection.
IpWhoIs == {"geo", "unsuccessful", "rejected"}

\* An exception that leaves fetchIpInfo.
Thrown == "thrown"

\* A fetchIpInfo without its catch: the rejection reaches the caller.
FetchIpInfo_Throws(response) ==
    IF response = "geo" THEN "geo"
    ELSE IF response = "unsuccessful" THEN Null
    ELSE Thrown

\* fetchIpInfo(ip): the fields of the data, null when data.success is false,
\* and null from its catch.
FetchIpInfo(response) ==
    IF response = "geo" THEN "geo" ELSE Null

(* --------------------------- checkEncryption -------------------------- *)

checkEncryption(p, ip) ==
    /\ Enter(p)
    /\ LET r == [op |-> "checkEncryption", ip |-> ip]
       IN  IF ip = NoIp
             THEN Respond(p, r, db, mail, 400, [success |-> FALSE,
                                      message |-> "IP address is required"])
             ELSE Start(p, r, "check_findOne")
    /\ UNCHANGED <<ledger, txn, db, mail, nextId>>

\* A lookup that forgets to count the access.
Touch_NoCount(doc, t) == [doc EXCEPT !.lastAccessed = t]

\* ipRecord.accessCount += 1; ipRecord.lastAccessed = Date.now()
Touch(doc, t) == [doc EXCEPT !.accessCount = @ + 1, !.lastAccessed = t]

check_findOne(p) ==
    /\ pc[p] = "check_findOne"
    /\ LET found == FindOne(req[p].ip)
       IN  IF found # NoDoc
             THEN /\ orig' = [orig EXCEPT ![p] = found]
                  /\ ipRecord' = [ipRecord EXCEPT ![p] = Touch(found, now)]
                  /\ Goto(p, "check_save")
             ELSE /\ UNCHANGED <<orig, ipRecord>>
                  /\ Goto(p, "check_fetchIpInfo")
    /\ UNCHANGED <<ledger, txn, db, mail, now, calls, nextId>>

check_save(p) ==
    /\ pc[p] = "check_save"
    /\ IF CanUpdate(db, orig[p], ipRecord[p])
         THEN /\ db' = UpdateOne(db, orig[p], ipRecord[p])
              /\ Respond(p, req[p], db', mail, 200,
                         [success |-> TRUE,
                          encrypted |-> ipRecord[p].isEncrypted,
                          encryptionStatus |-> ipRecord[p].encryptionStatus,
                          newRecord |-> FALSE])
         ELSE /\ db' = db
              /\ Respond(p, req[p], db, mail, 500,
                         [success |-> FALSE,
                          message |-> "Server error checking encryption status",
                          error |-> ErrorMessage])
    /\ UNCHANGED <<ledger, txn, mail, now, calls, nextId>>

check_fetchIpInfo(p) ==
    /\ pc[p] = "check_fetchIpInfo"
    /\ \E response \in IpWhoIs :
          LET ipInfo == FetchIpInfo(response)
          IN  IF ipInfo = Thrown
                THEN /\ Respond(p, req[p], db, mail, 500,
                           [success |-> FALSE,
                            message |-> "Server error checking encryption status",
                            error |-> ErrorMessage])
                     /\ UNCHANGED nextId
                ELSE /\ ipRecord' = [ipRecord EXCEPT ![p] =
                                        NewIP(nextId, req[p].ip, ipInfo, now)]
                     /\ nextId' = nextId + 1
                     /\ Goto(p, "check_saveNew")
                     /\ UNCHANGED orig
    /\ UNCHANGED <<ledger, txn, db, mail, now, calls>>

check_saveNew(p) ==
    /\ pc[p] = "check_saveNew"
    /\ IF CanInsert(db, ipRecord[p])
         THEN /\ db' = InsertOne(db, ipRecord[p])
              /\ Respond(p, req[p], db', mail, 200,
                         [success |-> TRUE,
                          encrypted |-> FALSE,
                          encryptionStatus |-> "unapproved",
                          newRecord |-> TRUE])
         ELSE /\ db' = db
              /\ Respond(p, req[p], db, mail, 500,
                         [success |-> FALSE,
                          message |-> "Server error checking encryption status",
                          error |-> ErrorMessage])
    /\ UNCHANGED <<ledger, txn, mail, now, calls, nextId>>

(* -------------------------- requestEncryption ------------------------- *)

\* A request that replaces the stored images by the uploaded ones.
ApplyRequest_Replace(doc, r, first, t) ==
    [doc EXCEPT !.contact = r.contact,
                !.encryptionCardImages = Uploaded(first, r.cards, t),
                !.receiptImages = Uploaded(first + r.cards, r.receipts, t),
                !.encryptionRequestDate = t,
                !.encryptionStatus = "pending"]

\* Lines 115-146: contact info overwritten, both image arrays extended,
\* request date set, status set to pending.
ApplyRequest(doc, r, first, t) ==
    [doc EXCEPT !.contact = r.contact,
                !.encryptionCardImages = @ \o Uploaded(first, r.cards, t),
                !.receiptImages = @ \o Uploaded(first + r.cards, r.receipts, t),
                !.encryptionRequestDate = t,
                !.encryptionStatus = "pending"]

\* A handler without the check of the card images.
NoCardImages_Unchecked(r) == FALSE

\* cardImages.length === 0
NoCardImages(r) == r.cards = 0

\* req.body's deviceModel, osVersion, email and phoneNumber: every request
\* brings contact details of its own, named after the request.
ContactOf(n) == n

requestEncryption(p, ip, cards, receipts) ==
    /\ Enter(p)
    /\ LET r == [op |-> "requestEncryption", ip |-> ip, contact |-> ContactOf(calls'),
                 cards |-> cards, receipts |-> receipts, arrived |-> now']
       IN  IF ip = NoIp
             THEN Respond(p, r, db, mail, 400, [success |-> FALSE,
                                      message |-> "IP address is required"])
             ELSE IF NoCardImages(r)
             THEN Respond(p, r, db, mail, 400, [success |-> FALSE,
                                      message |-> "Encryption card images are required"])
             ELSE Start(p, r, "request_findOne")
    /\ UNCHANGED <<ledger, txn, db, mail, nextId>>

request_findOne(p) ==
    /\ pc[p] = "request_findOne"
    /\ LET found == FindOne(req[p].ip)
       IN  IF found # NoDoc
             THEN /\ orig' = [orig EXCEPT ![p] = found]
                  /\ ipRecord' = [ipRecord EXCEPT ![p] =
                        ApplyRequest(found, req[p], nextId, now)]
                  /\ nextId' = nextId + req[p].cards + req[p].receipts
                  /\ Goto(p, "request_save")
             ELSE /\ UNCHANGED <<orig, ipRecord, nextId>>
                  /\ Goto(p, "request_fetchIpInfo")
    /\ UNCHANGED <<ledger, txn, db, mail, now, calls>>

request_fetchIpInfo(p) ==
    /\ pc[p] = "request_fetchIpInfo"
    /\ \E response \in IpWhoIs :
          LET ipInfo == FetchIpInfo(response)
          IN  IF ipInfo = Thrown
                THEN /\ Respond(p, req[p], db, mail, 500,
                           [success |-> FALSE,
                            message |-> "Server error processing encryption request",
                            error |-> ErrorMessage])
                     /\ UNCHANGED nextId
                ELSE /\ ipRecord' = [ipRecord EXCEPT ![p] =
                           ApplyRequest(NewIP(nextId, req[p].ip, ipInfo, now),
                                        req[p], nextId + 1, now)]
                     /\ nextId' = nextId + 1 + req[p].cards + req[p].receipts
                     /\ Goto(p, "request_save")
                     /\ UNCHANGED orig
    /\ UNCHANGED <<ledger, txn, db, mail, now, calls>>

\* The images of this request (uploadedCardImages, uploadedReceiptImages).
UploadedImages(p) ==
    LET n == req[p].cards
        m == req[p].receipts
        cs == ipRecord[p].encryptionCardImages
        rs == ipRecord[p].receiptImages
    IN  [cards |-> SubSeq(cs, Len(cs) - n + 1, Len(cs)),
         receipts |-> SubSeq(rs, Len(rs) - m + 1, Len(rs))]

\* A notification that carries every image of the record.
Notification_AllImages(doc, images, adminEmail) ==
    [ip |-> doc.ip, images |-> doc.encryptionCardImages \o doc.receiptImages,
     state |-> IF adminEmail THEN "sending" ELSE "skipped"]

\* emailService.sendEncryptionRequestNotification(ipInfo, allImages), run up
\* to its first await: without ADMIN_EMAIL it returns at once, otherwise the
\* email is on its way when the handler goes on (the call is not awaited).
Notification(doc, images, adminEmail) ==
    [ip |-> doc.ip, images |-> images,
     state |-> IF adminEmail THEN "sending" ELSE "skipped"]

request_save(p, adminEmail) ==
    /\ pc[p] = "request_save"
    /\ IF \/ orig[p] = NoDoc /\ ~CanInsert(db, ipRecord[p])
          \/ orig[p] # NoDoc /\ ~CanUpdate(db, orig[p], ipRecord[p])
         THEN /\ UNCHANGED <<db, mail>>
              /\ Respond(p, req[p], db, mail, 500,
                         [success |-> FALSE,
                          message |-> "Server error processing encryption request",
                          error |-> ErrorMessage])
         ELSE /\ db' = IF orig[p] = NoDoc
                         THEN InsertOne(db, ipRecord[p])
                         ELSE UpdateOne(db, orig[p], ipRecord[p])
              /\ mail' = mail \cup {Notification(ipRecord[p],
                                                 UploadedImages(p).cards
                                                 \o UploadedImages(p).receipts,
                                                 adminEmail)}
              /\ Respond(p, req[p], db', mail', 200,
                         [success |-> TRUE,
                          encryptionStatus |-> "pending",
                          cardImages |-> UploadedImages(p).cards,
                          receiptImages |-> UploadedImages(p).receipts])
    /\ UNCHANGED <<ledger, txn, now, calls, nextId>>

(* ----------------- sendEncryptionRequestNotification ------------------ *)

\* A failure that undoes the submission: the images of the notification are
\* taken out of the record.
Logged_RolledBack(coll, n) ==
    LET ids == {n.images[i]._id : i \in DOMAIN n.images}
    IN  { IF d.ip = n.ip
            THEN [d EXCEPT !.encryptionCardImages =
                              SelectSeq(@, LAMBDA img : img._id \notin ids),
                           !.receiptImages =
                              SelectSeq(@, LAMBDA img : img._id \notin ids)]
            ELSE d : d \in coll }

\* catch (error) { console.error("Failed to send email notification:", error) }
\* and the .catch of the caller: the failure is logged, the collection is as
\* it was.
Logged(coll, n) == coll

\* await apiInstance.sendTransacEmail(sendSmtpEmail) resolves (delivered) or
\* rejects, some time after the handler has gone on.
notify_sendTransacEmail(n, delivered) ==
    /\ n \in mail
    /\ n.state = "sending"
    /\ mail' = (mail \ {n}) \cup
                  {[n EXCEPT !.state = IF delivered THEN "sent" ELSE "failed"]}
    /\ db' = IF delivered THEN db ELSE Logged(db, n)
    /\ UNCHANGED <<ledger, txn, now, calls, nextId, pc, req, ipRecord, orig, sent>>

(* ------------------------ updateEncryptionStatus ---------------------- *)

\* A decision that assigns the notes whether or not any were sent.
ApplyDecision_AlwaysNotes(doc, status, notes) ==
    [doc EXCEPT !.encryptionStatus = status,
                !.isEncrypted = (status = "approved"),
                !.encryptionNotes = notes]

\* Lines 219-221.
ApplyDecision(doc, status, notes) ==
    [doc EXCEPT !.encryptionStatus = status,
                !.isEncrypted = (status = "approved"),
                !.encryptionNotes = IF notes # Null THEN notes ELSE @]

\* A check of the decision that lets every value through.
DecisionAllowed_Any(status) == TRUE

\* ["approved", "rejected"].includes(status)
DecisionAllowed(status) == status \in {"approved", "rejected"}

updateEncryptionStatus(p, ip, status, notes) ==
    /\ Enter(p)
    /\ LET r == [op |-> "updateEncryptionStatus", ip |-> ip, status |-> status,
                 notes |-> notes]
       IN  IF ip = NoIp
             THEN Respond(p, r, db, mail, 400, [success |-> FALSE,
                                      message |-> "IP address is required"])
             ELSE IF ~DecisionAllowed(status)
             THEN Respond(p, r, db, mail, 400, [success |-> FALSE,
                                      message |-> "Status must be approved or rejected"])
             ELSE Start(p, r, "update_findOne")
    /\ UNCHANGED <<ledger, txn, db, mail, nextId>>

update_findOne(p) ==
    /\ pc[p] = "update_findOne"
    /\ LET found == FindOne(req[p].ip)
       IN  IF found = NoDoc
             THEN Respond(p, req[p], db, mail, 404, [success |-> FALSE,
                                           message |-> "IP record not found"])
             ELSE /\ orig' = [orig EXCEPT ![p] = found]
                  /\ ipRecord' = [ipRecord EXCEPT ![p] =
                        ApplyDecision(found, req[p].status, req[p].notes)]
                  /\ Goto(p, "update_save")
    /\ UNCHANGED <<ledger, txn, db, mail, now, calls, nextId>>

update_save(p) ==
    /\ pc[p] = "update_save"
    /\ IF CanUpdate(db, orig[p], ipRecord[p])
         THEN /\ db' = UpdateOne(db, orig[p], ipRecord[p])
              /\ Respond(p, req[p], db', mail, 200,
                         [success |-> TRUE, encrypted |-> ipRecord[p].isEncrypted])
         ELSE /\ db' = db
              /\ Respond(p, req[p], db, mail, 500,
                         [success |-> FALSE,
                          message |-> "Server error updating encryption status",
                          error |-> ErrorMessage])
    /\ UNCHANGED <<ledger, txn, mail, now, calls, nextId>>

(* ------------------------ deleteEncryptionImage ----------------------- *)

\* type === "receipt" ? "receiptImages" : "encryptionCardImages"
ImageArray(type) == IF type = "receipt" THEN "receiptImages" ELSE "encryptionCardImages"

\* A search that settles for the first image.
FindIndex_Any(images, imageId) == IF Len(images) = 0 THEN 0 ELSE 1

\* images.findIndex(img => img._id.toString() === imageId); 0 when absent.
FindIndex(images, imageId) ==
    LET hits == {i \in 1..Len(images) : images[i]._id = imageId}
    IN  IF hits = {} THEN 0 ELSE CHOOSE i \in hits : \A j \in hits : i <= j

\* A splice without a delete count: it removes the rest of the array.
Splice_Tail(images, index) == SubSeq(images, 1, index - 1)

\* images.splice(index, 1)
Splice(images, index) ==
    SubSeq(images, 1, index - 1) \o SubSeq(images, index + 1, Len(images))

\* The image ids a caller may name: those of stored images, and one of none.
ImageIds ==
    {0} \cup UNION { {d.encryptionCardImages[i]._id : i \in DOMAIN d.encryptionCardImages}
                     \cup {d.receiptImages[i]._id : i \in DOMAIN d.receiptImages}
                     : d \in db }

deleteEncryptionImage(p, ip, imageId, type) ==
    /\ Enter(p)
    /\ Start(p, [op |-> "deleteEncryptionImage", ip |-> ip, imageId |-> imageId,
                 type |-> type], "deleteImage_findOne")
    /\ UNCHANGED <<ledger, txn, db, mail, nextId>>

deleteImage_findOne(p) ==
    /\ pc[p] = "deleteImage_findOne"
    /\ LET found == FindOne(req[p].ip)
       IN  IF found = NoDoc
             THEN Respond(p, req[p], db, mail, 404, [success |-> FALSE,
                                           message |-> "IP record not found"])
             ELSE IF FindIndex(found[ImageArray(req[p].type)], req[p].imageId) = 0
             THEN Respond(p, req[p], db, mail, 404, [success |-> FALSE,
                                           message |-> "Image not found"])
             ELSE /\ orig' = [orig EXCEPT ![p] = found]
                  /\ ipRecord' = [ipRecord EXCEPT ![p] = found]
                  /\ Goto(p, "deleteImage_destroy")
    /\ UNCHANGED <<ledger, txn, db, mail, now, calls, nextId>>

\* await cloudinary.uploader.destroy(image.publicId), which may reject; then
\* the splice.
deleteImage_destroy(p) ==
    /\ pc[p] = "deleteImage_destroy"
    /\ \E destroyed \in BOOLEAN :
          IF destroyed
            THEN /\ ipRecord' = [ipRecord EXCEPT ![p] =
                       LET a == ImageArray(req[p].type)
                       IN  [@ EXCEPT ![a] =
                              Splice(@, FindIndex(@, req[p].imageId))]]
                 /\ orig' = orig
                 /\ Goto(p, "deleteImage_save")
            ELSE Respond(p, req[p], db, mail, 500, [success |-> FALSE,
                                          message |-> "Server error deleting image",
                                          error |-> ErrorMessage])
    /\ UNCHANGED <<ledger, txn, db, mail, now, calls, nextId>>

deleteImage_save(p) ==
    /\ pc[p] = "deleteImage_save"
    /\ IF CanUpdate(db, orig[p], ipRecord[p])
         THEN /\ db' = UpdateOne(db, orig[p], ipRecord[p])
              /\ Respond(p, req[p], db', mail, 200,
                         [success |-> TRUE,
                          message |-> "Image deleted successfully"])
         ELSE /\ db' = db
              /\ Respond(p, req[p], db, mail, 500,
                         [success |-> FALSE,
                          message |-> "Server error deleting image",
                          error |-> ErrorMessage])
    /\ UNCHANGED <<ledger, txn, mail, now, calls, nextId>>

(* ===================== the cipher-key ledger ========================== *)

\* models/cipherKey.js: actionType is required and one of the enum's values;
\* cipherKey and ip are required.
SchemaValid(doc) ==
    /\ doc.actionType \in {"encrypt", "decrypt"}
    /\ doc.cipherKey # Null
    /\ doc.ip # NoIp

\* An index that admits one entry for an ip, action, key and timestamp.
IndexesAdmit_Unique(coll, doc) ==
    \A e \in coll : \/ e.ip # doc.ip
                    \/ e.actionType # doc.actionType
                    \/ e.cipherKey # doc.cipherKey
                    \/ e.timestamp # doc.timestamp

\* cipherKeySchema.index({ ip: 1 }) and index({ timestamp: -1 }): neither is
\* unique, so the indexes refuse no document.
IndexesAdmit(coll, doc) == TRUE

\* Routes without a validator chain.
ValidationErrors_None(r) == FALSE

\* The routes' express-validator chain is not among the sources:
\* validationResult(req) holds an error exactly when the action is not one of
\* the two recognised kinds.
ValidationErrors(r) == r.actionType \notin {"encrypt", "decrypt"}

\* The documents a transaction reads: those of its snapshot (taken by its
\* first operation) that it has not deleted itself, and those it inserted.
Visible(t) == (t.snapshot \ t.deleted) \cup t.inserted

\* A filter that also takes the entries recorded exactly at the cutoff.
OlderThan_Inclusive(coll, cutoff) == {e \in coll : e.timestamp <= cutoff}

\* { timestamp: { $lt: cutoffDate } }
OlderThan(coll, cutoff) == {e \in coll : e.timestamp < cutoff}

\* session.startTransaction(); the snapshot is taken by the first operation.
StartTransaction(p) ==
    [state |-> "started", at |-> 0, snapshot |-> {}, taken |-> FALSE,
     inserted |-> {}, deleted |-> {}, cutoff |-> 0, countBefore |-> 0,
     deletedCount |-> 0, cipherKeys |-> <<>>, actionCounts |-> {},
     hourlyActivity |-> <<>>]

\* A session without a transaction: every operation reads the latest
\* committed documents.
WithSnapshot_Fresh(t) == [t EXCEPT !.snapshot = ledger, !.taken = TRUE]

\* The first operation of a transaction fixes what it reads.
WithSnapshot(t) ==
    IF t.taken THEN t ELSE [t EXCEPT !.snapshot = ledger, !.taken = TRUE]

\* The documents other transactions in progress have written.
LockedByOthers(p) ==
    UNION {txn[q].deleted : q \in {q \in Procs : q # p /\ txn[q].state = "started"}}

\* A write of documents ds by p's transaction conflicts when one of them was
\* written by a transaction that committed after p's snapshot or is still in
\* progress (WriteConflict, a TransientTransactionError).
WriteConflict(p, ds) ==
    \/ ds \cap LockedByOthers(p) # {}
    \/ ~(ds \subseteq ledger)

\* An abort that leaves one of the deletions of the transaction applied.
Abort_Partial(coll, t) ==
    IF t.deleted = {} THEN coll ELSE coll \ {CHOOSE e \in t.deleted : TRUE}

\* An abort that leaves the deletions of the transaction applied.
Abort_Applied(coll, t) == coll \ t.deleted

\* session.abortTransaction(): the writes of the transaction are dropped.
Abort(coll, t) == coll

\* A commit that removes what the transaction read.
Commit_Consume(coll, t) == (coll \ t.snapshot) \cup t.inserted

\* A commit that keeps only what the transaction inserted.
Commit_Truncate(coll, t) == t.inserted

\* session.commitTransaction(): the writes of the transaction become visible
\* together.
Commit(coll, t) == (coll \ t.deleted) \cup t.inserted

\* res.status(code).json(body), the finally block ends the session, and the
\* handler returns.
LedgerRespond(p, after, code, body) ==
    /\ sent' = [req |-> req[p], status |-> code, body |-> body,
                txn |-> txn[p], before |-> ledger, after |-> after]
    /\ pc' = [pc EXCEPT ![p] = "idle"]
    /\ req' = [req EXCEPT ![p] = NoReq]
    /\ txn' = [txn EXCEPT ![p] = NoTxn]

\* The handler's promise rejects: the finally block ends the session and the
\* handler returns without having sent a response (status 0).
LedgerReturn(p, after) ==
    LedgerRespond(p, after, 0, [success |-> FALSE])

\* A commitTransaction that rejects leaves nothing committed; the session has
\* left the state in which its transaction can be aborted.
CommitFailed(t) == [t EXCEPT !.state = "commitFailed"]

\* session.abortTransaction() throws ("Cannot call abortTransaction after
\* calling commitTransaction") unless the transaction is in progress.
AbortThrows(t) == t.state # "started"

(* ---------------------------- storeCipherKey -------------------------- *)

\* The timestamps a caller may send with a key at time t: none, or one that
\* is up to MaxAge days old.
TimeStampsAt(t) ==
    {NoDate} \cup {t - a * DayTicks : a \in 1..MaxAge}

\* The timestamp of a key recorded a tick less than a day before t.
AlmostADayOld(t) == t - DayTicks + 1

\* The timestamp of a caller whose clock is an hour ahead.
ClockAhead(t) == t + HourTicks

storeCipherKey(p, ip, actionType, timestamp) ==
    /\ Enter(p)
    /\ Start(p, [op |-> "storeCipherKey", ip |-> ip, actionType |-> actionType,
                 cipherKey |-> "key", timestamp |-> timestamp],
             "store_startSession")
    /\ UNCHANGED <<ledger, txn, nextId, db, mail>>

\* await mongoose.startSession() has resolved: validation, startTransaction,
\* new CipherKey({... timestamp: timestamp || new Date()}).
store_startSession(p) ==
    /\ pc[p] = "store_startSession"
    /\ IF ValidationErrors(req[p])
         THEN /\ LedgerRespond(p, ledger, 400, [success |-> FALSE])
              /\ UNCHANGED nextId
         ELSE /\ txn' = [txn EXCEPT ![p] =
                    [StartTransaction(p) EXCEPT !.inserted =
                        {[ _id |-> nextId,
                           ip |-> req[p].ip,
                           actionType |-> req[p].actionType,
                           cipherKey |-> req[p].cipherKey,
                           timestamp |-> IF req[p].timestamp # NoDate
                                           THEN req[p].timestamp ELSE now ]}]]
              /\ nextId' = nextId + 1
              /\ Goto(p, "store_save")
    /\ UNCHANGED <<ledger, now, calls, registry>>

\* await newCipherKey.save({ session }): schema validation, then the insert
\* within the transaction, which the store carries out (stored) or fails.
store_save(p, stored) ==
    /\ pc[p] = "store_save"
    /\ IF stored /\ \A doc \in txn[p].inserted :
                       SchemaValid(doc) /\ IndexesAdmit(ledger, doc)
         THEN /\ txn' = [txn EXCEPT ![p] = WithSnapshot(@)]
              /\ Goto(p, "store_commit")
         ELSE /\ txn' = [txn EXCEPT ![p].inserted = {}]
              /\ Goto(p, "store_abort")
    /\ UNCHANGED <<ledger, now, calls, nextId, registry>>

\* await session.commitTransaction(), then the 201 response.
store_commit(p, committed) ==
    /\ pc[p] = "store_commit"
    /\ IF committed
         THEN /\ ledger' = Commit(ledger, txn[p])
              /\ LET doc == CHOOSE d \in txn[p].inserted : TRUE
                 IN  LedgerRespond(p, ledger', 201,
                                   [success |-> TRUE, id |-> doc._id,
                                    timestamp |-> doc.timestamp])
         ELSE /\ txn' = [txn EXCEPT ![p] = CommitFailed(@)]
              /\ Goto(p, "store_abort")
              /\ UNCHANGED ledger
    /\ UNCHANGED <<now, calls, nextId, registry>>

\* catch: await session.abortTransaction(), then the 500 response.
store_abort(p) ==
    /\ pc[p] = "store_abort"
    /\ ledger' = Abort(ledger, txn[p])
    /\ IF AbortThrows(txn[p])
         THEN LedgerReturn(p, ledger')
         ELSE LedgerRespond(p, ledger', 500,
                     [success |-> FALSE, message |-> "Failed to store cipher key",
                      error |-> Disclosed(NODE_ENV, ErrorMessage)])
    /\ UNCHANGED <<now, calls, nextId, registry>>

(* --------------------------- deleteCipherKeys ------------------------- *)

DefaultDays == 30
NoDays == -1                       \* req.body carries no days

\* const { days = 30 } = req.body
DaysOf(r) == IF r.days = NoDays THEN DefaultDays ELSE r.days

\* cutoffDate = new Date(); cutoffDate.setDate(cutoffDate.getDate() - days)
CutoffDate(t, days) == t - days * DayTicks

deleteCipherKeys(p, days) ==
    /\ Enter(p)
    /\ Start(p, [op |-> "deleteCipherKeys", days |-> days], "delete_startSession")
    /\ UNCHANGED <<ledger, txn, nextId, db, mail>>

\* await mongoose.startSession() has resolved: startTransaction, the cutoff.
delete_startSession(p) ==
    /\ pc[p] = "delete_startSession"
    /\ txn' = [txn EXCEPT ![p] =
          [StartTransaction(p) EXCEPT !.at = now,
                                      !.cutoff = CutoffDate(now, DaysOf(req[p]))]]
    /\ Goto(p, "delete_countBefore")
    /\ UNCHANGED <<ledger, now, calls, nextId, registry>>

\* countBefore = await CipherKey.countDocuments({timestamp: {$lt: cutoffDate}})
delete_countBefore(p) ==
    /\ pc[p] = "delete_countBefore"
    /\ LET t == WithSnapshot(txn[p])
       IN  txn' = [txn EXCEPT ![p] =
              [t EXCEPT !.countBefore = Cardinality(OlderThan(Visible(t), t.cutoff))]]
    /\ Goto(p, "delete_deleteMany")
    /\ UNCHANGED <<ledger, now, calls, nextId, registry>>

\* result = await CipherKey.deleteMany({timestamp: {$lt: cutoffDate}}), and
\* the comparison of result.deletedCount with countBefore.
delete_deleteMany(p) ==
    /\ pc[p] = "delete_deleteMany"
    /\ LET t == txn[p]
           hit == OlderThan(Visible(t), t.cutoff)
       IN  IF WriteConflict(p, hit)
             THEN /\ txn' = txn
                  /\ Goto(p, "delete_abort")
             ELSE /\ txn' = [txn EXCEPT ![p] =
                        [t EXCEPT !.deleted = @ \cup hit,
                                  !.deletedCount = Cardinality(hit)]]
                  /\ IF Cardinality(hit) # t.countBefore
                       THEN Goto(p, "delete_abort")
                       ELSE Goto(p, "delete_remainingCount")
    /\ UNCHANGED <<ledger, now, calls, nextId, registry>>

\* remainingCount = await CipherKey.countDocuments({timestamp: {$lt: cutoffDate}}),
\* which the store carries out (counted) or fails.
delete_remainingCount(p, counted) ==
    /\ pc[p] = "delete_remainingCount"
    /\ IF counted /\ Cardinality(OlderThan(Visible(txn[p]), txn[p].cutoff)) = 0
         THEN Goto(p, "delete_commit")
         ELSE Goto(p, "delete_abort")
    /\ UNCHANGED <<ledger, txn, now, calls, nextId, registry>>

\* await session.commitTransaction(), then the 200 response.
delete_commit(p, committed) ==
    /\ pc[p] = "delete_commit"
    /\ IF committed
         THEN /\ ledger' = Commit(ledger, txn[p])
              /\ LedgerRespond(p, ledger', 200,
                     [success |-> TRUE, deletedCount |-> txn[p].deletedCount])
         ELSE /\ txn' = [txn EXCEPT ![p] = CommitFailed(@)]
              /\ Goto(p, "delete_abort")
              /\ UNCHANGED ledger
    /\ UNCHANGED <<now, calls, nextId, registry>>

\* catch: await session.abortTransaction(), then the 500 response.
delete_abort(p) ==
    /\ pc[p] = "delete_abort"
    /\ ledger' = Abort(ledger, txn[p])
    /\ IF AbortThrows(txn[p])
         THEN LedgerReturn(p, ledger')
         ELSE LedgerRespond(p, ledger', 500,
                     [success |-> FALSE, message |-> "Failed to delete cipher keys",
                      error |-> Disclosed(NODE_ENV, ErrorMessage)])
    /\ UNCHANGED <<now, calls, nextId, registry>>

(* -------------------------- getCipherKeysByIp ------------------------- *)

\* .sort({ timestamp: 1 }): earliest first.
SortByTimestampAsc(coll) ==
    {q \in [1..Cardinality(coll) -> coll] :
        /\ \A i, j \in DOMAIN q : i # j => q[i] # q[j]
        /\ \A i, j \in DOMAIN q : i < j => q[i].timestamp <= q[j].timestamp}

\* .sort({ timestamp: -1 }): the documents of coll, latest first; documents
\* of one timestamp come in any order.
SortByTimestampDesc(coll) ==
    {q \in [1..Cardinality(coll) -> coll] :
        /\ \A i, j \in DOMAIN q : i # j => q[i] # q[j]
        /\ \A i, j \in DOMAIN q : i < j => q[i].timestamp >= q[j].timestamp}

\* A find without its filter.
Find_All(coll, ip) == coll

\* CipherKey.find({ ip })
Find(coll, ip) == {e \in coll : e.ip = ip}

\* The response a call repeats: the last response sent, when it answered the
\* same request successfully, and none otherwise.
Previous(r) ==
    IF /\ sent.req.op = r.op
       /\ sent.status = 200
       /\ r.op = "getCipherKeysByIp" => sent.req.ip = r.ip
      THEN [status |-> sent.status, body |-> sent.body, at |-> sent.txn.at,
            cutoff |-> sent.txn.cutoff, read |-> sent.txn.snapshot]
      ELSE NoPrevious

\* The request carries, for the record of what it answers, the entries of
\* the ip that are committed when it arrives and (retry) the response it
\* repeats.
getCipherKeysByIp(p, ip, retry) ==
    /\ Enter(p)
    /\ Start(p, [op |-> "getCipherKeysByIp", ip |-> ip,
                 committed |-> Find(ledger, ip),
                 prev |-> IF retry
                            THEN Previous([op |-> "getCipherKeysByIp", ip |-> ip])
                            ELSE NoPrevious], "query_startSession")
    /\ UNCHANGED <<ledger, txn, nextId, db, mail>>

\* await mongoose.startSession() has resolved: startTransaction.
query_startSession(p) ==
    /\ pc[p] = "query_startSession"
    /\ txn' = [txn EXCEPT ![p] = StartTransaction(p)]
    /\ Goto(p, "query_find")
    /\ UNCHANGED <<ledger, now, calls, nextId, registry>>

\* cipherKeys = await CipherKey.find({ ip }).session(session).sort(...).lean(),
\* then logApiAccess, which only logs.
query_find(p, found) ==
    /\ pc[p] = "query_find"
    /\ IF found
         THEN /\ LET t == WithSnapshot(txn[p])
                 IN  \E cipherKeys \in SortByTimestampDesc(Find(Visible(t), req[p].ip)) :
                        txn' = [txn EXCEPT ![p] = [t EXCEPT !.cipherKeys = cipherKeys]]
              /\ Goto(p, "query_commit")
         ELSE /\ txn' = txn
              /\ Goto(p, "query_abort")
    /\ UNCHANGED <<ledger, now, calls, nextId, registry>>

\* await session.commitTransaction(), then the 200 response.
query_commit(p, committed) ==
    /\ pc[p] = "query_commit"
    /\ IF committed
         THEN /\ ledger' = Commit(ledger, txn[p])
              /\ LedgerRespond(p, ledger', 200,
                     [success |-> TRUE, count |-> Len(txn[p].cipherKeys),
                      data |-> txn[p].cipherKeys])
         ELSE /\ txn' = [txn EXCEPT ![p] = CommitFailed(@)]
              /\ Goto(p, "query_abort")
              /\ UNCHANGED ledger
    /\ UNCHANGED <<now, calls, nextId, registry>>

\* catch: await session.abortTransaction(), then the 500 response.
query_abort(p) ==
    /\ pc[p] = "query_abort"
    /\ ledger' = Abort(ledger, txn[p])
    /\ IF AbortThrows(txn[p])
         THEN LedgerReturn(p, ledger')
         ELSE LedgerRespond(p, ledger', 500,
                     [success |-> FALSE, message |-> "Failed to retrieve cipher keys",
                      error |-> Disclosed(NODE_ENV, ErrorMessage)])
    /\ UNCHANGED <<now, calls, nextId, registry>>

(* ------------------------ getCipherKeyAnalytics ----------------------- *)

\* { $group: { _id: "$actionType", count: { $sum: 1 } } }
ActionCounts(coll) ==
    {[_id |-> a, count |-> Cardinality({e \in coll : e.actionType = a})] :
        a \in {e.actionType : e \in coll}}

\* { $match: { timestamp: { $gte: oneDayAgo } } }
Since(coll, oneDayAgo) == {e \in coll : e.timestamp >= oneDayAgo}

\* $year, $month, $dayOfMonth and $hour of a timestamp: its calendar hour.
HourOf(timestamp) == timestamp \div HourTicks

\* The $match, $group and $sort stages: one bucket for every calendar hour
\* that holds an entry of the window, in ascending order.
HourlyActivity(coll, oneDayAgo) ==
    LET hit == Since(coll, oneDayAgo)
        hours == {HourOf(e.timestamp) : e \in hit}
        bucket(h) == [_id |-> h,
                      count |-> Cardinality({e \in hit : HourOf(e.timestamp) = h})]
    IN  CHOOSE q \in [1..Cardinality(hours) -> {bucket(h) : h \in hours}] :
           \A i, j \in DOMAIN q : i < j => q[i]._id < q[j]._id

getCipherKeyAnalytics(p, retry) ==
    /\ Enter(p)
    /\ Start(p, [op |-> "getCipherKeyAnalytics",
                 prev |-> IF retry
                            THEN Previous([op |-> "getCipherKeyAnalytics"])
                            ELSE NoPrevious], "analytics_startSession")
    /\ UNCHANGED <<ledger, txn, nextId, db, mail>>

\* await mongoose.startSession() has resolved: startTransaction.
analytics_startSession(p) ==
    /\ pc[p] = "analytics_startSession"
    /\ txn' = [txn EXCEPT ![p] = StartTransaction(p)]
    /\ Goto(p, "analytics_actionCounts")
    /\ UNCHANGED <<ledger, now, calls, nextId, registry>>

\* actionCounts = await CipherKey.aggregate([...]).session(session), then
\* now = new Date() and oneDayAgo.
analytics_actionCounts(p) ==
    /\ pc[p] = "analytics_actionCounts"
    /\ LET t == WithSnapshot(txn[p])
       IN  txn' = [txn EXCEPT ![p] =
              [t EXCEPT !.actionCounts = ActionCounts(Visible(t)),
                        !.at = now,
                        !.cutoff = now - DayTicks]]
    /\ Goto(p, "analytics_hourlyActivity")
    /\ UNCHANGED <<ledger, now, calls, nextId, registry>>

\* hourlyActivity = await CipherKey.aggregate([...]).session(session)
analytics_hourlyActivity(p, aggregated) ==
    /\ pc[p] = "analytics_hourlyActivity"
    /\ IF aggregated
         THEN /\ LET t == WithSnapshot(txn[p])
                 IN  txn' = [txn EXCEPT ![p] =
                        [t EXCEPT !.hourlyActivity =
                                     HourlyActivity(Visible(t), t.cutoff)]]
              /\ Goto(p, "analytics_commit")
         ELSE /\ txn' = txn
              /\ Goto(p, "analytics_abort")
    /\ UNCHANGED <<ledger, now, calls, nextId, registry>>

\* await session.commitTransaction(), then the 200 response.
analytics_commit(p, committed) ==
    /\ pc[p] = "analytics_commit"
    /\ IF committed
         THEN /\ ledger' = Commit(ledger, txn[p])
              /\ LedgerRespond(p, ledger', 200,
                     [success |-> TRUE,
                      actionCounts |-> txn[p].actionCounts,
                      hourlyActivity |-> txn[p].hourlyActivity])
         ELSE /\ txn' = [txn EXCEPT ![p] = CommitFailed(@)]
              /\ Goto(p, "analytics_abort")
              /\ UNCHANGED ledger
    /\ UNCHANGED <<now, calls, nextId, registry>>

\* catch: await session.abortTransaction(), then the 500 response.
analytics_abort(p) ==
    /\ pc[p] = "analytics_abort"
    /\ ledger' = Abort(ledger, txn[p])
    /\ IF AbortThrows(txn[p])
         THEN LedgerReturn(p, ledger')
         ELSE LedgerRespond(p, ledger', 500,
                     [success |-> FALSE,
                      message |-> "Failed to retrieve cipher key analytics",
                      error |-> Disclosed(NODE_ENV, ErrorMessage)])
    /\ UNCHANGED <<now, calls, nextId, registry>>

(* ---------------------------- specification --------------------------- *)

Init ==
    /\ db = {}
    /\ mail = {}
    /\ now = Epoch
    /\ ledger = {}
    /\ txn = [p \in Procs |-> NoTxn]
    /\ calls = 0
    /\ nextId = 1
    /\ pc = [p \in Procs |-> "idle"]
    /\ req = [p \in Procs |-> NoReq]
    /\ ipRecord = [p \in Procs |-> NoDoc]
    /\ orig = [p \in Procs |-> NoDoc]
    /\ sent = NoResponse

Next ==
    \/ \E p \in Procs, ip \in Ips \cup {NoIp} : checkEncryption(p, ip)
    \/ \E p \in Procs : check_findOne(p)
    \/ \E p \in Procs : check_save(p)
    \/ \E p \in Procs : check_fetchIpInfo(p)
    \/ \E p \in Procs : check_saveNew(p)
    \/ \E p \in Procs, ip \in Ips \cup {NoIp},
          cards \in {0, MaxFiles}, receipts \in 0..MaxReceipts :
          requestEncryption(p, ip, cards, receipts)
    \/ \E p \in Procs : request_findOne(p)
    \/ \E p \in Procs : request_fetchIpInfo(p)
    \/ \E p \in Procs : request_save(p, TRUE)
    \/ \E p \in Procs, ip \in Ips \cup {NoIp}, status \in Statuses, notes \in Notes :
          updateEncryptionStatus(p, ip, status, notes)
    \/ \E p \in Procs : update_findOne(p)
    \/ \E p \in Procs : update_save(p)
    \/ \E p \in Procs, ip \in Ips, imageId \in ImageIds, type \in ImageTypes :
          deleteEncryptionImage(p, ip, imageId, type)
    \/ \E p \in Procs : deleteImage_findOne(p)
    \/ \E p \in Procs : deleteImage_destroy(p)
    \/ \E p \in Procs : deleteImage_save(p)

\* The record lifecycle: the handlers of ipController.js.
Spec == Init /\ [][Next]_vars

NextNotify ==
    \/ \E p \in Procs, ip \in Ips \cup {NoIp},
          cards \in {0, MaxFiles}, receipts \in 0..MaxReceipts :
          requestEncryption(p, ip, cards, receipts)
    \/ \E p \in Procs : request_findOne(p)
    \/ \E p \in Procs : request_fetchIpInfo(p)
    \/ \E p \in Procs, adminEmail \in BOOLEAN : request_save(p, adminEmail)
    \/ \E n \in mail, delivered \in BOOLEAN : notify_sendTransacEmail(n, delivered)

\* Submissions with the notifications they hand to the email service, which
\* complete or fail after the handler has gone on.
SpecNotify == Init /\ [][NextNotify]_vars

NextLedger ==
    \/ \E p \in Procs, ip \in Ips, actionType \in ActionTypes,
          timestamp \in TimeStampsAt(now + 1) :
          storeCipherKey(p, ip, actionType, timestamp)
    \/ \E p \in Procs : store_startSession(p)
    \/ \E p \in Procs, stored \in BOOLEAN : store_save(p, stored)
    \/ \E p \in Procs : store_commit(p, TRUE)
    \/ \E p \in Procs : store_abort(p)
    \/ \E p \in Procs, days \in {NoDays} \cup 0..MaxDays : deleteCipherKeys(p, days)
    \/ \E p \in Procs : delete_startSession(p)
    \/ \E p \in Procs : delete_countBefore(p)
    \/ \E p \in Procs : delete_deleteMany(p)
    \/ \E p \in Procs, counted \in BOOLEAN : delete_remainingCount(p, counted)
    \/ \E p \in Procs : delete_commit(p, TRUE)
    \/ \E p \in Procs : delete_abort(p)

\* The writers of the cipher-key ledger: storeCipherKey and deleteCipherKeys
\* of cipherKeyController.js, with a store that may fail.
SpecLedger == Init /\ [][NextLedger]_vars

NextReads ==
    \/ \E p \in Procs, ip \in Ips, actionType \in {"encrypt", "decrypt"},
          timestamp \in TimeStampsAt(now + 1) \cup {ClockAhead(now + 1)} :
          storeCipherKey(p, ip, actionType, timestamp)
    \/ \E p \in Procs : store_startSession(p)
    \/ \E p \in Procs : store_save(p, TRUE)
    \/ \E p \in Procs : store_commit(p, TRUE)
    \/ \E p \in Procs, days \in 0..MaxDays : deleteCipherKeys(p, days)
    \/ \E p \in Procs : delete_startSession(p)
    \/ \E p \in Procs : delete_countBefore(p)
    \/ \E p \in Procs : delete_deleteMany(p)
    \/ \E p \in Procs : delete_remainingCount(p, TRUE)
    \/ \E p \in Procs : delete_commit(p, TRUE)
    \/ \E p \in Procs : delete_abort(p)
    \/ \E p \in Procs, ip \in Ips : getCipherKeysByIp(p, ip, FALSE)
    \/ \E p \in Procs : query_startSession(p)
    \/ \E p \in Procs : query_find(p, TRUE)
    \/ \E p \in Procs : query_commit(p, TRUE)
    \/ \E p \in Procs : getCipherKeyAnalytics(p, FALSE)
    \/ \E p \in Procs : analytics_startSession(p)
    \/ \E p \in Procs : analytics_actionCounts(p)
    \/ \E p \in Procs : analytics_hourlyActivity(p, TRUE)
    \/ \E p \in Procs : analytics_commit(p, TRUE)

\* The readers of the ledger, getCipherKeysByIp and getCipherKeyAnalytics,
\* beside its writers, with well-formed requests and a store that answers.
SpecReads == Init /\ [][NextReads]_vars

NextRetry ==
    \/ \E p \in Procs, ip \in Ips, actionType \in {"encrypt", "decrypt"},
          timestamp \in {NoDate, AlmostADayOld(now + 1)} :
          storeCipherKey(p, ip, actionType, timestamp)
    \/ \E p \in Procs : store_startSession(p)
    \/ \E p \in Procs : store_save(p, TRUE)
    \/ \E p \in Procs : store_commit(p, TRUE)
    \/ \E p \in Procs, ip \in Ips : getCipherKeysByIp(p, ip, TRUE)
    \/ \E p \in Procs : query_startSession(p)
    \/ \E p \in Procs : query_find(p, TRUE)
    \/ \E p \in Procs : query_commit(p, TRUE)
    \/ \E p \in Procs : getCipherKeyAnalytics(p, TRUE)
    \/ \E p \in Procs : analytics_startSession(p)
    \/ \E p \in Procs : analytics_actionCounts(p)
    \/ \E p \in Procs : analytics_hourlyActivity(p, TRUE)
    \/ \E p \in Procs : analytics_commit(p, TRUE)

\* The readers of the ledger called again and again, beside storeCipherKey,
\* with keys recorded now or almost a day ago.
SpecRetry == Init /\ [][NextRetry]_vars

NextSessions ==
    \/ \E p \in Procs, actionType \in ActionTypes :
          storeCipherKey(p, "ip1", actionType, NoDate)
    \/ \E p \in Procs : store_startSession(p)
    \/ \E p \in Procs, stored \in BOOLEAN : store_save(p, stored)
    \/ \E p \in Procs, committed \in BOOLEAN : store_commit(p, committed)
    \/ \E p \in Procs : store_abort(p)
    \/ \E p \in Procs : deleteCipherKeys(p, 0)
    \/ \E p \in Procs : delete_startSession(p)
    \/ \E p \in Procs : delete_countBefore(p)
    \/ \E p \in Procs : delete_deleteMany(p)
    \/ \E p \in Procs, counted \in BOOLEAN : delete_remainingCount(p, counted)
    \/ \E p \in Procs, committed \in BOOLEAN : delete_commit(p, committed)
    \/ \E p \in Procs : delete_abort(p)
    \/ \E p \in Procs : getCipherKeysByIp(p, "ip1", FALSE)
    \/ \E p \in Procs : query_startSession(p)
    \/ \E p \in Procs, found \in BOOLEAN : query_find(p, found)
    \/ \E p \in Procs, committed \in BOOLEAN : query_commit(p, committed)
    \/ \E p \in Procs : query_abort(p)
    \/ \E p \in Procs : getCipherKeyAnalytics(p, FALSE)
    \/ \E p \in Procs : analytics_startSession(p)
    \/ \E p \in Procs : analytics_actionCounts(p)
    \/ \E p \in Procs, aggregated \in BOOLEAN : analytics_hourlyActivity(p, aggregated)
    \/ \E p \in Procs, committed \in BOOLEAN : analytics_commit(p, committed)
    \/ \E p \in Procs : analytics_abort(p)

\* The four handlers of cipherKeyController.js for one ip, with store
\* operations and commits that may fail.
SpecSessions == Init /\ [][NextSessions]_vars

NextErrors ==
    \/ \E p \in Procs, ip \in {"ip1", NoIp} : checkEncryption(p, ip)
    \/ \E p \in Procs : check_findOne(p)
    \/ \E p \in Procs : check_save(p)
    \/ \E p \in Procs : check_fetchIpInfo(p)
    \/ \E p \in Procs : check_saveNew(p)
    \/ \E p \in Procs, ip \in {"ip1", NoIp}, cards \in {0, MaxFiles} :
          requestEncryption(p, ip, cards, 0)
    \/ \E p \in Procs : request_findOne(p)
    \/ \E p \in Procs : request_fetchIpInfo(p)
    \/ \E p \in Procs : request_save(p, TRUE)
    \/ \E p \in Procs, ip \in {"ip1", NoIp}, status \in Statuses :
          updateEncryptionStatus(p, ip, status, Null)
    \/ \E p \in Procs : update_findOne(p)
    \/ \E p \in Procs : update_save(p)
    \/ \E p \in Procs, imageId \in ImageIds :
          deleteEncryptionImage(p, "ip1", imageId, "card")
    \/ \E p \in Procs : deleteImage_findOne(p)
    \/ \E p \in Procs : deleteImage_destroy(p)
    \/ \E p \in Procs : deleteImage_save(p)
    \/ \E p \in Procs, actionType \in ActionTypes,
          timestamp \in TimeStampsAt(now + 1) :
          storeCipherKey(p, "ip1", actionType, timestamp)
    \/ \E p \in Procs : store_startSession(p)
    \/ \E p \in Procs, stored \in BOOLEAN : store_save(p, stored)
    \/ \E p \in Procs : store_commit(p, TRUE)
    \/ \E p \in Procs : store_abort(p)
    \/ \E p \in Procs : deleteCipherKeys(p, 0)
    \/ \E p \in Procs : delete_startSession(p)
    \/ \E p \in Procs : delete_countBefore(p)
    \/ \E p \in Procs : delete_deleteMany(p)
    \/ \E p \in Procs, counted \in BOOLEAN : delete_remainingCount(p, counted)
    \/ \E p \in Procs : delete_commit(p, TRUE)
    \/ \E p \in Procs : delete_abort(p)

\* The writers of the record collection and of the ledger side by side, for
\* one ip, with a store that may fail.
SpecErrors == Init /\ [][NextErrors]_vars

(* ------------------------------- claims ------------------------------- *)

\* C1: the status of a record changes only along the permitted transitions:
\* in every step, the status of each record before and after is either the
\* same or one of unapproved->pending, pending->approved, pending->rejected,
\* approved->pending, rejected->pending.
C1_PermittedTransitionsOnly ==
    [][\A d \in db : \A e \in db' :
          (d._id = e._id /\ d.encryptionStatus # e.encryptionStatus)
          => <<d.encryptionStatus, e.encryptionStatus>> \in
                {<<"unapproved", "pending">>, <<"pending", "approved">>,
                 <<"pending", "rejected">>, <<"approved", "pending">>,
                 <<"rejected", "pending">>}]_vars

\* C2: a decision on a record that the handler found in a status other than
\* pending is answered with an error and leaves the record's status and
\* isEncrypted flag as they were.
C2_DecideOnNonPendingFails ==
    (/\ sent.req.op = "updateEncryptionStatus"
     /\ sent.loaded # NoDoc
     /\ sent.loaded.encryptionStatus # "pending")
    => /\ sent.status # 200
       /\ ~sent.wrote
       /\ \A d \in db : d._id = sent.loaded._id =>
             /\ d.encryptionStatus = sent.loaded.encryptionStatus
             /\ d.isEncrypted = sent.loaded.isEncrypted

\* C3: in every reachable state the collection holds at most one record per
\* ip, whatever the interleaving of the finds and saves of concurrent
\* checkEncryption and requestEncryption calls.
C3_OneRecordPerIp ==
    \A ip \in Ips : Cardinality({d \in db : d.ip = ip}) <= 1

\* Two creations of the same ip have raced: the second insert was refused,
\* and one record is stored.
C3_Witness ==
    /\ sent.req.op \in {"checkEncryption", "requestEncryption"}
    /\ sent.status = 500
    /\ sent.loaded = NoDoc
    /\ Cardinality({d \in db : d.ip = sent.req.ip}) = 1

\* C4: a checkEncryption that loses the race to create the record answers
\* with an error only after it has retried as a lookup and update, that is
\* after it has loaded the winner's record.
C4_LoserRetriesAsUpdate ==
    (sent.req.op = "checkEncryption" /\ sent.status = 500)
    => sent.loaded # NoDoc

\* C5: a checkEncryption that finds no record of the ip and succeeds stores
\* the one record of that ip, unapproved with accessCount 1, and reports
\* newRecord true and encrypted false; one that finds a record reports
\* newRecord false and stores an accessCount one above the one it found, 2
\* for the second call.
C5_LookupOrCreate ==
    (sent.req.op = "checkEncryption" /\ sent.status = 200)
    => IF sent.loaded = NoDoc
         THEN /\ sent.body.newRecord
              /\ ~sent.body.encrypted
              /\ sent.body.encryptionStatus = "unapproved"
              /\ \E d \in db :
                    /\ {e \in db : e.ip = sent.req.ip} = {d}
                    /\ d.encryptionStatus = "unapproved"
                    /\ d.accessCount = 1
                    /\ ~d.isEncrypted
         ELSE /\ ~sent.body.newRecord
              /\ \E d \in db :
                    /\ {e \in db : e.ip = sent.req.ip} = {d}
                    /\ d._id = sent.loaded._id
                    /\ d.accessCount = sent.loaded.accessCount + 1

\* The second checkEncryption of an ip has answered: the record it found had
\* accessCount 1 and the stored one has 2.
C5_Witness ==
    /\ sent.req.op = "checkEncryption"
    /\ sent.status = 200
    /\ sent.loaded # NoDoc
    /\ sent.loaded.accessCount = 1
    /\ sent.loaded.encryptionStatus = "unapproved"
    /\ ~sent.body.newRecord
    /\ \E d \in db : d.ip = sent.req.ip /\ d.accessCount = 2

\* C6: a requestEncryption with at least one card image that succeeds leaves
\* the record of its ip with status pending, whatever the status before and
\* also when there was no record.
C6_SubmitLeavesPending ==
    (sent.req.op = "requestEncryption" /\ sent.status = 200)
    => \E d \in db : d.ip = sent.req.ip /\ d.encryptionStatus = "pending"

C8_DecideOnPending ==
    (/\ sent.req.op = "updateEncryptionStatus"
     /\ sent.status = 200
     /\ sent.loaded.encryptionStatus = "pending")
    => \E d \in db :
          /\ d._id = sent.loaded._id
          /\ d.encryptionStatus = sent.req.status
          /\ d.isEncrypted = (sent.req.status = "approved")

C10_NoSilentUnderDelete ==
    (sent.req.op = "deleteCipherKeys" /\ sent.status = 200)
    => \A e \in sent.after \ sent.txn.snapshot : e.timestamp >= sent.txn.cutoff

C12_EntriesImmutable ==
    [][/\ \A e \in ledger : \A f \in ledger' : e._id = f._id => e = f
       /\ \A e \in ledger' \ ledger :
             /\ sent'.req.op = "storeCipherKey"
             /\ sent'.status = 201
             /\ e.ip = sent'.req.ip
             /\ e.actionType = sent'.req.actionType
             /\ e.cipherKey = sent'.req.cipherKey
             /\ sent'.req.timestamp # NoDate => e.timestamp = sent'.req.timestamp
             /\ \A f \in ledger : f._id # e._id
       /\ ledger \ ledger' # {}
          => /\ sent'.req.op = "deleteCipherKeys"
             /\ sent'.status = 200
             /\ ledger \ ledger' = sent'.txn.deleted]_vars

\* A deleteCipherKeys has removed one entry and one entry is in the ledger.
C12_Witness ==
    /\ sent.req.op = "deleteCipherKeys"
    /\ sent.status = 200
    /\ Cardinality(sent.before \ sent.after) = 1
    /\ Cardinality(ledger) = 1

\* C13: a storeCipherKey whose actionType is neither encrypt nor decrypt is
\* answered 400 without a transaction: its handler never reaches the save,
\* and the ledger is as before.
C13_UnknownActionRejected ==
    /\ \A p \in Procs :
          pc[p] \in {"store_save", "store_commit", "store_abort"}
          => req[p].actionType \in {"encrypt", "decrypt"}
    /\ (sent.req.op = "storeCipherKey"
        /\ sent.req.actionType \notin {"encrypt", "decrypt"})
       => /\ sent.status = 400
          /\ sent.txn = NoTxn
          /\ sent.after = sent.before
          /\ ledger = sent.before

\* A storeCipherKey with another actionType has been answered while the
\* ledger holds an entry.
C13_Witness ==
    /\ sent.req.op = "storeCipherKey"
    /\ sent.req.actionType = "other"
    /\ sent.status = 400
    /\ ledger # {}

\* C14: a getCipherKeysByIp returns every entry of its ip that was committed
\* when the request arrived and has not been pruned since, and lists its
\* entries latest first.
C14_QueryReturnsAppended ==
    (sent.req.op = "getCipherKeysByIp" /\ sent.status = 200)
    => LET data == sent.body.data
       IN  /\ \A e \in sent.req.committed \cap sent.after :
                 \E i \in DOMAIN data : data[i] = e
           /\ \A i, j \in DOMAIN data :
                 i < j => data[i].timestamp >= data[j].timestamp

\* A getCipherKeysByIp has returned two entries of different timestamps that
\* were stored before it arrived, the later one an encrypt.
C14_Witness ==
    /\ sent.req.op = "getCipherKeysByIp"
    /\ sent.status = 200
    /\ Len(sent.body.data) = 2
    /\ sent.body.data[1].actionType = "encrypt"
    /\ sent.body.data[1].timestamp > sent.body.data[2].timestamp
    /\ \A i \in 1..2 : sent.body.data[i] \in sent.req.committed

\* C15: a getCipherKeysByIp returns, once each, exactly the entries of its ip
\* in the ledger state its find read, in non-increasing order of timestamp,
\* and count is the length of data.
C15_QueryExactlyTheIp ==
    (sent.req.op = "getCipherKeysByIp" /\ sent.status = 200)
    => LET data == sent.body.data
           S == sent.txn.snapshot
       IN  /\ sent.txn.taken
           /\ {data[i] : i \in DOMAIN data} = {e \in S : e.ip = sent.req.ip}
           /\ Len(data) = Cardinality({e \in S : e.ip = sent.req.ip})
           /\ \A i \in 1..(Len(data) - 1) :
                 data[i].timestamp >= data[i + 1].timestamp
           /\ sent.body.count = Len(data)

\* A getCipherKeysByIp has returned an entry, and an append for another ip
\* has committed between its find and its response.
C15_Witness ==
    /\ sent.req.op = "getCipherKeysByIp"
    /\ sent.status = 200
    /\ Len(sent.body.data) >= 1
    /\ \E e \in sent.after \ sent.txn.snapshot : e.ip # sent.req.ip

\* C16: actionCounts counts every entry by its actionType, and
\* hourlyActivity counts, by calendar hour, the entries whose timestamp lies
\* in the 24 hours that end when the handler reads the clock, and no other.
C16_HourlyWindow ==
    (sent.req.op = "getCipherKeyAnalytics" /\ sent.status = 200)
    => LET S == sent.txn.snapshot
           W == {e \in S : /\ e.timestamp >= sent.txn.at - 24 * HourTicks
                           /\ e.timestamp <= sent.txn.at}
           hourly == sent.body.hourlyActivity
       IN  /\ \A a \in {"encrypt", "decrypt"} :
                 LET n == Cardinality({e \in S : e.actionType = a})
                 IN  IF n = 0
                       THEN \A c \in sent.body.actionCounts : c._id # a
                       ELSE [_id |-> a, count |-> n] \in sent.body.actionCounts
           /\ {hourly[i]._id : i \in DOMAIN hourly}
                 = {e.timestamp \div HourTicks : e \in W}
           /\ \A i \in DOMAIN hourly :
                 hourly[i].count =
                    Cardinality({e \in W : e.timestamp \div HourTicks = hourly[i]._id})

\* C17: the two results of a getCipherKeyAnalytics are those of one ledger
\* state, the one its transaction read: actionCounts are the counts of that
\* state by actionType and hourlyActivity its entries of the window by hour,
\* so the hourly counts never sum to more than the action counts.
C17_AnalyticsOneSnapshot ==
    (sent.req.op = "getCipherKeyAnalytics" /\ sent.status = 200)
    => LET S == sent.txn.snapshot
           hourly == sent.body.hourlyActivity
           inHours == UNION {{e \in S : /\ e.timestamp >= sent.txn.cutoff
                                        /\ e.timestamp \div HourTicks = hourly[i]._id}
                             : i \in DOMAIN hourly}
       IN  /\ sent.txn.taken
           /\ sent.body.actionCounts = ActionCounts(S)
           /\ hourly = HourlyActivity(S, sent.txn.cutoff)
           /\ \A i \in DOMAIN hourly :
                 hourly[i].count =
                    Cardinality({e \in inHours : e.timestamp \div HourTicks = hourly[i]._id})
           /\ \A c \in sent.body.actionCounts :
                 c.count = Cardinality({e \in S : e.actionType = c._id})
           /\ Cardinality(inHours) <= Cardinality(S)

\* A getCipherKeyAnalytics has answered with an hourly bucket while a write
\* committed between its first read and its response.
C17_Witness ==
    /\ sent.req.op = "getCipherKeyAnalytics"
    /\ sent.status = 200
    /\ sent.body.hourlyActivity # <<>>
    /\ sent.after # sent.txn.snapshot

\* C18: a deleteEncryptionImage that names an image id absent from the named
\* array of a stored record is answered 404 and writes nothing, and only a
\* handler that found the id goes on to cloudinary's destroy and the save.
C18_UnknownImageNotFound ==
    /\ \A p \in Procs :
          pc[p] \in {"deleteImage_destroy", "deleteImage_save"}
          => \E i \in DOMAIN orig[p][IF req[p].type = "receipt"
                                      THEN "receiptImages"
                                      ELSE "encryptionCardImages"] :
                orig[p][IF req[p].type = "receipt"
                          THEN "receiptImages"
                          ELSE "encryptionCardImages"][i]._id = req[p].imageId
    /\ sent.req.op = "deleteEncryptionImage"
       => LET a == IF sent.req.type = "receipt"
                     THEN "receiptImages" ELSE "encryptionCardImages"
              has(doc) == \E i \in DOMAIN doc[a] : doc[a][i]._id = sent.req.imageId
          IN  /\ (sent.loaded = NoDoc /\ sent.prior # NoDoc)
                 => /\ ~has(sent.prior)
                    /\ sent.status = 404
                    /\ sent.body.message = "Image not found"
                    /\ ~sent.wrote
                    /\ sent.stored = sent.prior
              /\ sent.loaded # NoDoc => has(sent.loaded)
              /\ sent.status = 200 => has(sent.prior)

\* A deleteEncryptionImage for a record with a card image has been answered
\* 404: the id it named is not in the named array.
C18_Witness ==
    /\ sent.req.op = "deleteEncryptionImage"
    /\ sent.status = 404
    /\ sent.prior # NoDoc
    /\ sent.prior.encryptionCardImages # <<>>

C21_DecideUnknownNotFound ==
    /\ \A p \in Procs :
          pc[p] = "update_save" => orig[p] # NoDoc /\ orig[p].ip = req[p].ip
    /\ (/\ sent.req.op = "updateEncryptionStatus"
        /\ sent.req.ip # NoIp
        /\ sent.req.status \in {"approved", "rejected"}
        /\ sent.prior = NoDoc)
       => /\ sent.status = 404
          /\ ~sent.body.success
          /\ sent.body.message = "IP record not found"
          /\ sent.loaded = NoDoc
          /\ ~sent.wrote
          /\ sent.stored = NoDoc
          /\ \A d \in db : d.ip # sent.req.ip

\* A decision for an ip without a record has been answered 404 while the
\* record of another ip is stored.
C21_Witness ==
    /\ sent.req.op = "updateEncryptionStatus"
    /\ sent.status = 404
    /\ sent.req.status = "approved"
    /\ db # {}
    /\ \A d \in db : d.ip # sent.req.ip

\* C22: a requestEncryption that succeeds answers while its notification is
\* not yet delivered (on its way, or skipped); the step in which a
\* notification is delivered or fails changes neither the response sent, nor
\* the collection, nor any handler; and the record of every notification,
\* failed ones included, keeps the images of its submission.
C22_NotificationFireAndForget ==
    [][/\ (/\ sent' # sent
           /\ sent'.req.op = "requestEncryption"
           /\ sent'.status = 200)
          => \E n \in mail' \ mail :
                /\ n.ip = sent'.req.ip
                /\ n.images = sent'.body.cardImages \o sent'.body.receiptImages
                /\ n.state \in {"sending", "skipped"}
       /\ \A n \in mail \ mail' :
             /\ n.state = "sending"
             /\ \E m \in mail' \ mail :
                   /\ m.state \in {"sent", "failed"}
                   /\ m.ip = n.ip
                   /\ m.images = n.images
             /\ sent' = sent
             /\ db' = db
             /\ pc' = pc
       /\ \A n \in mail' :
             \E d \in db' :
                /\ d.ip = n.ip
                /\ \A i \in DOMAIN n.images :
                      \/ \E j \in DOMAIN d.encryptionCardImages :
                            d.encryptionCardImages[j] = n.images[i]
                      \/ \E j \in DOMAIN d.receiptImages :
                            d.receiptImages[j] = n.images[i]]_vars

\* The notification of the submission answered last has failed: the answer
\* is the success sent before, and the record holds the submitted images.
C22_Witness ==
    /\ sent.req.op = "requestEncryption"
    /\ sent.status = 200
    /\ \E n \in mail :
          /\ n.state = "failed"
          /\ n.images = sent.body.cardImages \o sent.body.receiptImages
          /\ \E d \in db :
                /\ d.ip = n.ip
                /\ Len(d.encryptionCardImages) + Len(d.receiptImages) >= Len(n.images)
                /\ d.encryptionStatus = "pending"

\* C23: every checkEncryption that succeeds on a stored record raises the
\* stored accessCount by exactly one, so that the count equals the number of
\* completed lookups also when their finds and saves interleave, and the
\* stored count is never below the one the handler found.
C23_EveryLookupCounted ==
    (/\ sent.req.op = "checkEncryption"
     /\ sent.status = 200
     /\ sent.prior # NoDoc)
    => /\ sent.stored.accessCount = sent.prior.accessCount + 1
       /\ sent.stored.accessCount > sent.loaded.accessCount

\* C24: the record collection and the ledger change only in the step in which
\* a handler answers with success, so a handler that answers with an error
\* has written nothing, in that step or before; and the writes of a
\* transaction in progress are in no state part of the ledger: what it
\* inserted is not in it, what it deleted still is.
C24_AllOrNothingOnError ==
    [][/\ db' # db
          => /\ sent' # sent
             /\ sent'.status = 200
             /\ sent'.req.op \in {"checkEncryption", "requestEncryption",
                                  "updateEncryptionStatus", "deleteEncryptionImage"}
       /\ ledger' # ledger
          => /\ sent' # sent
             /\ sent'.status \in {200, 201}
             /\ sent'.req.op \in {"storeCipherKey", "deleteCipherKeys"}
       /\ (sent' # sent /\ sent'.status >= 400)
          => /\ ~sent'.body.success
             /\ db' = db
             /\ ledger' = ledger
             /\ mail' = mail
       /\ \A p \in Procs :
             txn'[p].state = "started"
             => /\ txn'[p].inserted \cap ledger' = {}
                /\ txn'[p].deleted \subseteq ledger']_vars

\* A deleteEncryptionImage has failed after cloudinary's destroy, at its
\* save, and the stored record holds the image as before.
C24_Witness ==
    /\ sent.req.op = "deleteEncryptionImage"
    /\ sent.status = 500
    /\ sent.loaded # NoDoc
    /\ sent.prior.__v # sent.loaded.__v
    /\ sent.stored = sent.prior
    /\ \E i \in DOMAIN sent.stored.encryptionCardImages :
          sent.stored.encryptionCardImages[i]._id = sent.req.imageId

\* C25: whatever fetchIpInfo comes to, a checkEncryption or a
\* requestEncryption for an ip without a record goes on to build and save the
\* record: it answers 200 and stores the record, with the fields of the ip's
\* data or without them, unless a record of the ip was stored meanwhile.
C25_EnrichmentFailureTolerated ==
    /\ \A p \in Procs :
          (\/ pc[p] = "check_saveNew"
           \/ pc[p] = "request_save" /\ orig[p] = NoDoc)
          => /\ ipRecord[p] # NoDoc
             /\ ipRecord[p].ip = req[p].ip
             /\ ipRecord[p].geo \in {"geo", Null}
    /\ (/\ sent.req.op \in {"checkEncryption", "requestEncryption"}
        /\ sent.req.ip # NoIp
        /\ sent.req.op = "requestEncryption" => sent.req.cards > 0
        /\ sent.loaded = NoDoc)
       => IF sent.prior = NoDoc
            THEN /\ sent.status = 200
                 /\ sent.body.success
                 /\ sent.wrote
                 /\ sent.stored # NoDoc
                 /\ sent.stored.ip = sent.req.ip
                 /\ sent.stored.geo \in {"geo", Null}
                 /\ sent.stored \in db
            ELSE sent.status = 500 /\ ~sent.wrote

\* A requestEncryption has created a record without the fields of the ip's
\* data, and answered 200.
C25_Witness ==
    /\ sent.req.op = "requestEncryption"
    /\ sent.status = 200
    /\ sent.loaded = NoDoc
    /\ sent.stored.geo = Null
    /\ sent.stored.accessCount = 1
    /\ sent.stored.encryptionCardImages # <<>>

\* C26 as the specification states it: getCipherKeysByIp and
\* getCipherKeyAnalytics change neither the ledger nor the record collection,
\* and a call that repeats the last one and reads the ledger as that one read
\* it answers with the same result.
C26_RetrySameResult ==
    (sent.req.op \in {"getCipherKeysByIp", "getCipherKeyAnalytics"}
     /\ sent.status = 200)
    => /\ sent.after = sent.before
       /\ ledger = sent.before
       /\ (sent.req.prev # NoPrevious /\ sent.req.prev.read = sent.txn.snapshot)
          => sent.body = sent.req.prev.body

\* C26 (amended): the two readers change neither the ledger nor the record
\* collection and their transactions write nothing; a call that repeats the
\* last one and reads the ledger as that one read it returns the same entries
\* and count (getCipherKeysByIp) and the same actionCounts
\* (getCipherKeyAnalytics), and the same hourlyActivity when no entry lies
\* between the starts of the two windows.
C26_ReadOnlyRetry ==
    (sent.req.op \in {"getCipherKeysByIp", "getCipherKeyAnalytics"}
     /\ sent.status = 200)
    => /\ sent.after = sent.before
       /\ ledger = sent.before
       /\ sent.txn.inserted = {}
       /\ sent.txn.deleted = {}
       /\ (sent.req.prev # NoPrevious /\ sent.req.prev.read = sent.txn.snapshot)
          => LET prev == sent.req.prev
             IN  IF sent.req.op = "getCipherKeysByIp"
                   THEN /\ {sent.body.data[i] : i \in DOMAIN sent.body.data}
                              = {prev.body.data[i] : i \in DOMAIN prev.body.data}
                        /\ sent.body.count = prev.body.count
                   ELSE /\ sent.body.actionCounts = prev.body.actionCounts
                        /\ prev.cutoff <= sent.txn.cutoff
                        /\ {e \in sent.txn.snapshot :
                               /\ e.timestamp >= prev.cutoff
                               /\ e.timestamp < sent.txn.cutoff} = {}
                           => sent.body.hourlyActivity = prev.body.hourlyActivity

\* A getCipherKeyAnalytics has repeated the last call on an unchanged ledger
\* and answered with the same hourly activity, of one hour at least.
C26_Witness ==
    /\ sent.req.op = "getCipherKeyAnalytics"
    /\ sent.status = 200
    /\ sent.req.prev # NoPrevious
    /\ sent.req.prev.read = sent.txn.snapshot
    /\ sent.body.hourlyActivity # <<>>
    /\ sent.body.hourlyActivity = sent.req.prev.body.hourlyActivity

\* C27: with NODE_ENV production, no response that reports an error carries
\* the message of the error caught: it carries the kind and the handler's
\* fixed message only.
C27_NoInternalDetail ==
    (NODE_ENV = "production" /\ sent.status >= 400)
    => /\ ~sent.body.success
       /\ "error" \in DOMAIN sent.body => sent.body.error # ErrorMessage

\* C28: a requestEncryption that succeeds has counted the access as a
\* checkEncryption does: on a stored record the accessCount is one above the
\* stored one and lastAccessed is of the time of the call, and a record it
\* creates has accessCount 1.
C28_SubmitCountsAccess ==
    (sent.req.op = "requestEncryption" /\ sent.status = 200)
    => IF sent.prior = NoDoc
         THEN sent.stored.accessCount = 1
         ELSE /\ sent.stored.accessCount = sent.prior.accessCount + 1
              /\ sent.stored.lastAccessed >= sent.req.arrived

\* C29: a storeCipherKey of a well-formed key is not refused for the entries
\* the ledger holds: it never comes to its catch, and its commit adds exactly
\* one entry, of the id it reports and of no id used before, also when an
\* entry of the same ip, action, key and timestamp is stored; and a
\* getCipherKeysByIp returns every entry of its ip once, entries that differ
\* in their id alone included.
C29_NoUniquenessOnAppend ==
    /\ \A p \in Procs : pc[p] # "store_abort"
    /\ sent.req.op = "storeCipherKey"
       => /\ sent.status = 201
          /\ \E e \in sent.after :
                /\ e \notin sent.before
                /\ \A f \in sent.before : f._id # e._id
                /\ e._id = sent.body.id
                /\ sent.after = sent.before \cup {e}
          /\ Cardinality(sent.after) = Cardinality(sent.before) + 1
          /\ ledger = sent.after
    /\ (sent.req.op = "getCipherKeysByIp" /\ sent.status = 200)
       => \A e \in sent.txn.snapshot :
             e.ip = sent.req.ip
             => Cardinality({i \in DOMAIN sent.body.data : sent.body.data[i] = e}) = 1

\* A getCipherKeysByIp has returned two entries that agree in ip, action,
\* key and timestamp.
C29_Witness ==
    /\ sent.req.op = "getCipherKeysByIp"
    /\ sent.status = 200
    /\ Len(sent.body.data) = 2
    /\ sent.body.data[1]._id # sent.body.data[2]._id
    /\ [sent.body.data[1] EXCEPT !._id = 0] = [sent.body.data[2] EXCEPT !._id = 0]

\* C30: an updateEncryptionStatus that succeeds without notes leaves the
\* encryptionNotes of the record as they were stored, one with notes leaves
\* no other notes than its own or the stored ones, and in both cases the two
\* image arrays, the contact details, the accessCount and the
\* encryptionRequestDate of the record are as they were stored.
C30_DecideFrame ==
    (sent.req.op = "updateEncryptionStatus" /\ sent.status = 200)
    => LET P == sent.prior
           D == sent.stored
       IN  /\ D._id = P._id
           /\ sent.req.notes = Null => D.encryptionNotes = P.encryptionNotes
           /\ D.encryptionNotes \in {sent.req.notes, P.encryptionNotes}
           /\ D.encryptionCardImages = P.encryptionCardImages
           /\ D.receiptImages = P.receiptImages
           /\ D.contact = P.contact
           /\ D.accessCount = P.accessCount
           /\ D.encryptionRequestDate = P.encryptionRequestDate
           /\ D \in db

\* A decision without notes has succeeded on a record that holds the notes
\* of an earlier decision, images and contact details.
C30_Witness ==
    /\ sent.req.op = "updateEncryptionStatus"
    /\ sent.status = 200
    /\ sent.req.notes = Null
    /\ sent.prior.encryptionNotes = "note"
    /\ sent.stored.encryptionNotes = "note"
    /\ sent.stored.encryptionCardImages # <<>>
    /\ sent.stored.contact # NoContact

\* C31: in every reachable state a stored record has isEncrypted true exactly
\* when its encryptionStatus is approved; a requestEncryption on an approved
\* record leaves it pending and not encrypted.
C31_VerifiedIffApproved ==
    \A d \in db : d.isEncrypted <=> d.encryptionStatus = "approved"

\* C32: a requestEncryption with an ip and card images takes effect also when
\* its find and save interleave with those of another requestEncryption for
\* the ip: it answers 200, and each image array of the record is then the
\* array as stored, with the images of the other request, followed by its own.
C32_InterleavedSubmitsBothApply ==
    (/\ sent.req.op = "requestEncryption"
     /\ sent.req.ip # NoIp
     /\ sent.req.cards > 0)
    => /\ sent.status = 200
       /\ LET cards == IF sent.prior = NoDoc THEN <<>>
                       ELSE sent.prior.encryptionCardImages
              receipts == IF sent.prior = NoDoc THEN <<>>
                          ELSE sent.prior.receiptImages
          IN  /\ sent.stored.encryptionCardImages = cards \o sent.body.cardImages
              /\ sent.stored.receiptImages = receipts \o sent.body.receiptImages
              /\ Len(sent.body.cardImages) = sent.req.cards
              /\ Len(sent.body.receiptImages) = sent.req.receipts

\* C33: an updateEncryptionStatus that succeeds never leaves a record approved
\* or rejected with images the handler has not read: every image of the
\* record it leaves decided was in the record as it loaded it.
C33_NoUnseenSubmissionDecided ==
    (/\ sent.req.op = "updateEncryptionStatus"
     /\ sent.status = 200
     /\ sent.stored.encryptionStatus \in {"approved", "rejected"})
    => /\ \A i \in DOMAIN sent.stored.encryptionCardImages :
             \E j \in DOMAIN sent.loaded.encryptionCardImages :
                sent.loaded.encryptionCardImages[j] = sent.stored.encryptionCardImages[i]
       /\ \A i \in DOMAIN sent.stored.receiptImages :
             \E j \in DOMAIN sent.loaded.receiptImages :
                sent.loaded.receiptImages[j] = sent.stored.receiptImages[i]

\* C34: a notification is handed to the email service only in the step in
\* which a requestEncryption has saved its record and answers 200: a request
\* rejected by a check or failed at its save hands over none, no other
\* handler does, and the notification of a request carries the images of
\* that request, cards then receipts, and no other.
C34_NotifyAfterPersist ==
    /\ sent.notified
       => /\ sent.req.op = "requestEncryption"
          /\ sent.status = 200
    /\ (sent.req.op = "requestEncryption" /\ sent.status # 200)
       => ~sent.notified /\ ~sent.wrote
    /\ (sent.req.op = "requestEncryption" /\ sent.status = 200)
       => LET images == sent.body.cardImages \o sent.body.receiptImages
              D == sent.stored
          IN  /\ sent.notified
              /\ sent.wrote
              /\ Len(images) = sent.req.cards + sent.req.receipts
              /\ \E n \in mail : n.ip = sent.req.ip /\ n.images = images
              /\ \A n \in mail :
                    (\E i \in DOMAIN n.images : \E j \in DOMAIN images :
                        n.images[i] = images[j])
                    => n.images = images
              /\ SubSeq(D.encryptionCardImages,
                        Len(D.encryptionCardImages) - sent.req.cards + 1,
                        Len(D.encryptionCardImages)) = sent.body.cardImages
              /\ SubSeq(D.receiptImages,
                        Len(D.receiptImages) - sent.req.receipts + 1,
                        Len(D.receiptImages)) = sent.body.receiptImages
    /\ \A n \in mail : \E d \in db : d.ip = n.ip

\* A requestEncryption has failed at its save, without a notification, after
\* an earlier one for the ip was saved and notified.
C34_Witness ==
    /\ sent.req.op = "requestEncryption"
    /\ sent.status = 500
    /\ sent.loaded # NoDoc
    /\ ~sent.notified
    /\ \E n \in mail : n.ip = sent.req.ip
    /\ sent.stored.encryptionCardImages # <<>>

\* C35: every ledger handler (storeCipherKey, getCipherKeysByIp,
\* getCipherKeyAnalytics, deleteCipherKeys) that has returned has sent a
\* response and ended its session, on every path: a validation failure
\* answers 400 before any transaction was started, a failed store operation
\* answers 500 after aborting a transaction that was in progress, and a failed
\* commit is answered too; abortTransaction is never invoked on a session
\* whose commit was attempted.
C35_OneResponseSessionEnded ==
    /\ \A p \in Procs : pc[p] = "idle" => txn[p] = NoTxn
    /\ sent.req.op \in {"storeCipherKey", "getCipherKeysByIp",
                        "getCipherKeyAnalytics", "deleteCipherKeys"} =>
          /\ sent.status \in {200, 201, 400, 500}
          /\ sent.status = 400 => sent.txn = NoTxn
          /\ sent.status = 500 => sent.txn.state = "started"
          /\ sent.txn # NoTxn => sent.txn.state # "commitFailed"

\* C36: updateEncryptionStatus rejects malformed input before touching the
\* store: a request without an ip, or with a status other than approved or
\* rejected (pending included), is answered 400 in the step in which it
\* arrives, having loaded and written nothing, and never reaches IP.findOne or
\* save; so the status a decision is about to save is approved or rejected.
C36_DecideValidatesFirst ==
    /\ \A p \in Procs :
          pc[p] \in {"update_findOne", "update_save"} =>
             /\ req[p].ip # NoIp
             /\ req[p].status \in {"approved", "rejected"}
    /\ \A p \in Procs :
          pc[p] = "update_save" =>
             /\ ipRecord[p].encryptionStatus = req[p].status
             /\ ipRecord[p].encryptionStatus \in {"approved", "rejected"}
    /\ (/\ sent.req.op = "updateEncryptionStatus"
        /\ \/ sent.req.ip = NoIp
           \/ sent.req.status \notin {"approved", "rejected"})
       => /\ sent.status = 400
          /\ ~sent.body.success
          /\ sent.loaded = NoDoc
          /\ ~sent.wrote
          /\ sent.stored = sent.prior
    /\ (sent.req.op = "updateEncryptionStatus" /\ sent.status = 200)
       => sent.req.status \in {"approved", "rejected"}

\* A decision of pending on a stored record that is approved has been
\* answered 400, and the record is still approved.
C36_Witness ==
    /\ sent.req.op = "updateEncryptionStatus"
    /\ sent.req.status = "pending"
    /\ sent.req.ip # NoIp
    /\ sent.status = 400
    /\ sent.prior # NoDoc
    /\ sent.prior.encryptionStatus = "approved"
    /\ sent.stored.encryptionStatus = "approved"

====
